---- MODULE Spec2Model ----
(***************************************************************************)
(* Model of the hierarchical-consensus subnet actor (src/src/lib.rs).      *)
(* The persisted State is one record; every method of the dispatcher is    *)
(* one action that loads it, runs the handler and saves it, or aborts      *)
(* leaving it unchanged.  The methods of `State` (state.rs) are operators  *)
(* over the record, written from sections 4.2 to 4.4 of the specification. *)
(* Token amounts are scaled: MIN_COLLATERAL_AMOUNT, 10^18 in the SCA       *)
(* crate, is 2 units here.                                                 *)
(***************************************************************************)
EXTENDS Integers, Sequences, FiniteSets, TLC

\* ---------------------------------------------------------------- bounds
NumAccounts == 3        \* account-type callers
MaxValue == 2           \* largest value attached to a join
MaxTotal == 3           \* cap on total_stake (join is not taken beyond it)
MaxEpoch == 2           \* largest epoch a submitted checkpoint names
MaxPending == 1         \* cap on the number of entries of window_checks
MaxMinStake == 2        \* largest min_validator_stake given to the constructor
MaxPeriod == 2          \* largest check_period given to the constructor

\* ------------------------------------------------------------- constants
TEST_ADDR_ID == 339
INIT_ACTOR_ADDR == 1
SCA_ACTOR_ADDR == 64
MIN_COLLATERAL_AMOUNT == 2

\* the callers whose code is the account actor's
Accounts == 100 .. (99 + NumAccounts)
\* every caller: the init actor, the test-bypass id and the accounts
Callers == {INIT_ACTOR_ADDR, TEST_ADDR_ID} \cup Accounts

\* Cid::default(), the null cid
NullCid == <<>>

\* the subnet id of this actor, and a foreign one
ThisSubnet == 0
OtherSubnet == 1

\* get_builtin_actor_type(get_actor_code_cid(caller))
actor_type(a) == IF a \in Accounts THEN "Account" ELSE "Other"

\* Checkpoint::cid(): the hash of the serialized checkpoint, injective
cid(ch) == <<ch.source, ch.epoch, ch.data, ch.prev_cid>>

VARIABLES
    state,      \* the persisted State (the single state root)
    testing,    \* State::is_test(), fixed for a deployment
    result,     \* exit code of the last invocation
    sent        \* messages sent by the last invocation, in order

vars == <<state, testing, result, sent>>

Msg(to, method, params, value) ==
    [to |-> to, method |-> method, params |-> params, value |-> value]

\* ------------------------------------------------------- State (state.rs)
\* State::new
State_new(params) ==
    [ status |-> "Instantiated",
      min_validator_stake |-> params.min_validator_stake,
      min_validators |-> params.min_validators,
      check_period |-> params.check_period,
      total_stake |-> 0,
      stake |-> [a \in Accounts |-> 0],
      validator_set |-> {},
      window_checks |-> <<>>,
      prev_checkpoint |-> NullCid,
      committed_checkpoints |-> <<>> ]

\* the slot before the constructor has run
NoState == [State_new([min_validator_stake |-> 0, min_validators |-> 0,
                       check_period |-> 0]) EXCEPT !.status = "Uninit"]

\* get_stake
get_stake(st, addr) == IF addr \in DOMAIN st.stake THEN st.stake[addr] ELSE 0

\* add_stake that leaves total_stake as it was
add_stake_ledger_only(st, addr, amount) ==
    LET bal == get_stake(st, addr) + amount
    IN [st EXCEPT !.stake[addr] = bal,
                  !.validator_set =
                      IF bal >= st.min_validator_stake THEN @ \cup {addr} ELSE @]

\* State::add_stake
add_stake(st, addr, amount) ==
    LET bal == get_stake(st, addr) + amount
    IN [st EXCEPT !.stake[addr] = bal,
                  !.total_stake = @ + amount,
                  !.validator_set =
                      IF bal >= st.min_validator_stake THEN @ \cup {addr} ELSE @]

\* State::rm_stake fails unless the whole stake is withdrawn
rm_stake_ok(st, addr, amount) == get_stake(st, addr) = amount

\* rm_stake that leaves validator_set as it was
rm_stake_keeps_validator(st, addr, amount) ==
    [st EXCEPT !.stake[addr] = 0, !.total_stake = @ - amount]

\* State::rm_stake
rm_stake(st, addr, amount) ==
    [st EXCEPT !.stake[addr] = 0,
               !.total_stake = @ - amount,
               !.validator_set = @ \ {addr}]

\* mutate_state that leaves Terminating as it is
mutate_state_still_terminating(st) ==
    CASE st.status = "Instantiated"
             /\ st.total_stake >= MIN_COLLATERAL_AMOUNT ->
                 [st EXCEPT !.status = "Active"]
      [] st.status = "Active" /\ st.validator_set = {} ->
                 [st EXCEPT !.status = "Inactive"]
      [] st.status = "Inactive" /\ st.validator_set # {}
             /\ st.total_stake >= MIN_COLLATERAL_AMOUNT ->
                 [st EXCEPT !.status = "Active"]
      [] OTHER -> st

\* State::mutate_state
mutate_state(st) ==
    CASE st.status = "Instantiated"
             /\ st.total_stake >= MIN_COLLATERAL_AMOUNT ->
                 [st EXCEPT !.status = "Active"]
      [] st.status = "Active" /\ st.validator_set = {} ->
                 [st EXCEPT !.status = "Inactive"]
      [] st.status = "Inactive" /\ st.validator_set # {}
             /\ st.total_stake >= MIN_COLLATERAL_AMOUNT ->
                 [st EXCEPT !.status = "Active"]
      [] st.status = "Terminating" -> [st EXCEPT !.status = "Killed"]
      [] OTHER -> st

\* State::verify_checkpoint: TRUE when the checkpoint is accepted
verify_checkpoint(st, caller, ch) ==
    /\ ch.source = ThisSubnet
    /\ caller \in st.validator_set
    /\ ch.epoch > 0
    /\ ch.epoch % st.check_period = 0
    /\ ch.epoch \notin DOMAIN st.committed_checkpoints
    /\ ch.prev_cid = st.prev_checkpoint

\* get_votes: the stored votes, <<>> standing for None
get_votes(votes_map, c) ==
    IF c \in DOMAIN votes_map THEN votes_map[c] ELSE <<>>

\* ceil(2 * n / 3)
majority_threshold(n) == (2 * n + 2) \div 3

\* State::has_majority_vote
has_majority_vote(st, votes) ==
    Len(votes) >= majority_threshold(Cardinality(st.validator_set))

\* State::flush_checkpoint
flush_checkpoint(st, ch) ==
    [st EXCEPT !.committed_checkpoints = (ch.epoch :> ch) @@ @,
               !.prev_checkpoint = cid(ch)]

\* a delete that leaves the key in the map
map_delete_kept(m, k) == m

\* Map::delete
map_delete(m, k) == [x \in DOMAIN m \ {k} |-> m[x]]

\* Map::set
map_set(m, k, v) == (k :> v) @@ m

\* ------------------------------------------------------------ dispatcher
\* what an invocation does: its exit code, the state it saves and the
\* messages it sends; an abort saves nothing and its sends are rolled back
Abort(code) == [code |-> code, st |-> state, msgs |-> <<>>]

Return(st, msgs) == [code |-> "OK", st |-> st, msgs |-> msgs]

\* Actor::constructor
constructor(caller, params) ==
    IF caller # INIT_ACTOR_ADDR /\ (caller # TEST_ADDR_ID /\ testing)
    THEN Abort("Forbidden")
    ELSE Return(State_new(params), <<>>)

\* join that registers with the value received instead of total_stake
join_registers_amount(caller, amount, balance) ==
    IF actor_type(caller) # "Account"
    THEN Abort("Forbidden")
    ELSE IF amount <= 0
    THEN Abort("IllegalArgument")
    ELSE LET st1 == add_stake(state, caller, amount)
             msgs == IF st1.status = "Instantiated"
                     THEN IF balance >= MIN_COLLATERAL_AMOUNT
                          THEN <<Msg(SCA_ACTOR_ADDR, "Register", <<>>, amount)>>
                          ELSE <<>>
                     ELSE <<Msg(SCA_ACTOR_ADDR, "AddStake", <<>>, amount)>>
         IN Return(mutate_state(st1), msgs)

\* Actor::join with attached value `amount`; `balance` is current_balance()
join(caller, amount, balance) ==
    IF actor_type(caller) # "Account"
    THEN Abort("Forbidden")
    ELSE IF amount <= 0
    THEN Abort("IllegalArgument")
    ELSE LET st1 == add_stake(state, caller, amount)
             msgs == IF st1.status = "Instantiated"
                     THEN IF balance >= MIN_COLLATERAL_AMOUNT
                          THEN <<Msg(SCA_ACTOR_ADDR, "Register", <<>>,
                                     st1.total_stake)>>
                          ELSE <<>>
                     ELSE <<Msg(SCA_ACTOR_ADDR, "AddStake", <<>>, amount)>>
         IN Return(mutate_state(st1), msgs)

\* leave that pays the caller before it tells the SCA
leave_pays_first(caller) ==
    IF actor_type(caller) # "Account"
    THEN Abort("Forbidden")
    ELSE LET stake == get_stake(state, caller)
         IN IF stake = 0
            THEN Abort("IllegalState")
            ELSE LET release ==
                         IF state.status # "Terminating"
                         THEN <<Msg(SCA_ACTOR_ADDR, "ReleaseStake",
                                    <<stake>>, 0)>>
                         ELSE <<>>
                     st1 == rm_stake(state, caller, stake)
                     msgs == <<Msg(caller, "Send", <<>>, stake)>> \o release
                 IN IF ~rm_stake_ok(state, caller, stake)
                    THEN Abort("IllegalState")
                    ELSE Return(mutate_state(st1), msgs)

\* Actor::leave
leave(caller) ==
    IF actor_type(caller) # "Account"
    THEN Abort("Forbidden")
    ELSE LET stake == get_stake(state, caller)
         IN IF stake = 0
            THEN Abort("IllegalState")
            ELSE LET release ==
                         IF state.status # "Terminating"
                         THEN <<Msg(SCA_ACTOR_ADDR, "ReleaseStake",
                                    <<stake>>, 0)>>
                         ELSE <<>>
                     st1 == rm_stake(state, caller, stake)
                     msgs == Append(release, Msg(caller, "Send", <<>>, stake))
                 IN IF ~rm_stake_ok(state, caller, stake)
                    THEN Abort("IllegalState")
                    ELSE Return(mutate_state(st1), msgs)

\* kill without the test of validator_set
kill_with_validators(caller) ==
    IF state.status = "Terminating" \/ state.status = "Killed"
    THEN Abort("IllegalState")
    ELSE LET st1 == [state EXCEPT !.status = "Terminating"]
             msgs == <<Msg(SCA_ACTOR_ADDR, "Kill", <<>>, 0)>>
         IN Return(mutate_state(st1), msgs)

\* Actor::kill
kill(caller) ==
    IF state.status = "Terminating" \/ state.status = "Killed"
    THEN Abort("IllegalState")
    ELSE IF Cardinality(state.validator_set) # 0
    THEN Abort("IllegalState")
    ELSE LET st1 == [state EXCEPT !.status = "Terminating"]
             msgs == <<Msg(SCA_ACTOR_ADDR, "Kill", <<>>, 0)>>
         IN Return(mutate_state(st1), msgs)

\* the check for an earlier vote left out
already_voted_unchecked(votes, caller) == FALSE

\* votes.validators.iter().any(|x| x == &caller)
already_voted(votes, caller) == \E i \in 1..Len(votes) : votes[i] = caller

\* the vote is not pushed
add_vote_dropped(votes, caller) == votes

\* votes.validators.push(caller)
add_vote(votes, caller) == Append(votes, caller)

\* Actor::submit_checkpoint, from the votes table on
record_vote(caller, checkpoint) ==
    LET ch_cid == cid(checkpoint)
        found == ch_cid \in DOMAIN state.window_checks
        votes0 == get_votes(state.window_checks, ch_cid)
        votes == add_vote(votes0, caller)
    IN IF already_voted(votes0, caller)
       THEN Abort("IllegalState")
       ELSE IF has_majority_vote(state, votes)
       THEN LET st1 == flush_checkpoint(state, checkpoint)
                msgs == <<Msg(SCA_ACTOR_ADDR, "CommitChildCheckpoint",
                              ch_cid, 0)>>
                votes_map == IF found
                             THEN map_delete(state.window_checks, ch_cid)
                             ELSE state.window_checks
            IN Return([st1 EXCEPT !.window_checks = votes_map], msgs)
       ELSE Return([state EXCEPT !.window_checks =
                                     map_set(@, ch_cid, votes)], <<>>)

\* submit_checkpoint that does not propagate the error of verify_checkpoint
submit_checkpoint_unverified(caller, checkpoint) ==
    IF actor_type(caller) # "Account"
    THEN Abort("Forbidden")
    ELSE record_vote(caller, checkpoint)

\* Actor::submit_checkpoint
submit_checkpoint(caller, checkpoint) ==
    IF actor_type(caller) # "Account"
    THEN Abort("Forbidden")
    ELSE IF ~verify_checkpoint(state, caller, checkpoint)
    THEN Abort("IllegalState")
    ELSE record_vote(caller, checkpoint)

\* invoke: the invocation's outcome becomes the persisted state, the exit
\* code and the messages sent
invoke(out) ==
    /\ state' = out.st
    /\ result' = out.code
    /\ sent' = out.msgs
    /\ UNCHANGED testing

Init ==
    /\ state = NoState
    /\ testing \in BOOLEAN
    /\ result = "OK"
    /\ sent = <<>>

Constructed == state.status # "Uninit"

ConstructParams ==
    [min_validator_stake : 1..MaxMinStake, min_validators : {1},
     check_period : 1..MaxPeriod]

\* the values current_balance() may return in a join that received v
Balances(v) == {b \in {v, MIN_COLLATERAL_AMOUNT} : b >= v}

\* the prev_cid values a submitter may name: null, the last committed
\* checkpoint or any committed checkpoint
PrevCids ==
    {NullCid, state.prev_checkpoint}
        \cup {cid(state.committed_checkpoints[e]) :
                  e \in DOMAIN state.committed_checkpoints}

\* the checkpoints a caller may submit: any epoch, either payload and any
\* such prev_cid for this subnet, and one checkpoint of a foreign subnet
Checkpoints ==
    [source : {ThisSubnet}, epoch : 0..MaxEpoch, data : {0, 1},
     prev_cid : PrevCids]
    \cup [source : {OtherSubnet}, epoch : {MaxEpoch}, data : {0},
          prev_cid : {state.prev_checkpoint}]

\* method 1; the init actor constructs an actor once, when it creates it
Constructor ==
    \E c \in Callers, p \in ConstructParams :
        /\ c = INIT_ACTOR_ADDR => ~Constructed
        /\ invoke(constructor(c, p))

\* method 2
Join ==
    \E c \in Callers, v \in 0..MaxValue :
        \E b \in Balances(v) :
            /\ Constructed
            /\ state.total_stake + v <= MaxTotal
            /\ invoke(join(c, v, b))

\* method 3
Leave == \E c \in Callers : Constructed /\ invoke(leave(c))

\* method 4
Kill == \E c \in Callers : Constructed /\ invoke(kill(c))

\* method 5
SubmitCheckpoint ==
    \E c \in Callers, ch \in Checkpoints :
        LET out == submit_checkpoint(c, ch)
        IN /\ Constructed
           /\ Cardinality(DOMAIN out.st.window_checks) <= MaxPending
           /\ invoke(out)

Next == Constructor \/ Join \/ Leave \/ Kill \/ SubmitCheckpoint

Spec == Init /\ [][Next]_vars

\* ------------------------------------------------------------ properties
RECURSIVE SumOver(_, _)
SumOver(f, S) ==
    IF S = {} THEN 0
    ELSE LET a == CHOOSE x \in S : TRUE IN f[a] + SumOver(f, S \ {a})

\* the last call was a successful call of the method sending `method`
SentMethod(method) ==
    /\ result = "OK"
    /\ \E i \in 1..Len(sent) : sent[i].method = method

\* P holds of the outcome of every join, leave, kill and submit_checkpoint
\* that can be invoked in the current state
EveryHandlerCall(P(_)) ==
    /\ \A c \in Callers, v \in 0..MaxValue :
           \A b \in Balances(v) : P(join(c, v, b))
    /\ \A c \in Callers : P(leave(c)) /\ P(kill(c))
    /\ \A c \in Callers, ch \in Checkpoints : P(submit_checkpoint(c, ch))

votes_of(st, c) == get_votes(st.window_checks, c)

InSeq(x, q) == \E i \in 1..Len(q) : q[i] = x

\* C1: after every call total_stake is the sum of the balances of the
\* stake ledger.
C1_TotalStakeIsLedgerSum ==
    Constructed => state.total_stake = SumOver(state.stake, DOMAIN state.stake)

\* a leave has returned, leaving the stake of others in the ledger
C1_Witness ==
    /\ SentMethod("ReleaseStake")
    /\ state.total_stake > 0
    /\ \E a \in Accounts : state.stake[a] > 1

\* C2: after every successful call the status is Active exactly when
\* total_stake is at least MIN_COLLATERAL_AMOUNT and validator_set has at
\* least min_validators members (as long as the subnet was not killed).
C2_ActiveIffThresholds ==
    (Constructed /\ result = "OK" /\ state.status # "Killed") =>
        (state.status = "Active" <=>
            /\ state.total_stake >= MIN_COLLATERAL_AMOUNT
            /\ Cardinality(state.validator_set) >= state.min_validators)

\* C3: once the status is Killed, every join, leave, kill and
\* submit_checkpoint aborts and leaves the persisted state unchanged.
C3_KilledIsFinal ==
    state.status = "Killed" =>
        EveryHandlerCall(LAMBDA out : out.code # "OK" /\ out.st = state)

\* C4: whenever the status is Killed after a successful call, total_stake
\* is 0 and every balance of the stake ledger is 0.
C4_KilledHasNoStake ==
    (state.status = "Killed" /\ result = "OK") =>
        /\ state.total_stake = 0
        /\ \A a \in DOMAIN state.stake : state.stake[a] = 0

C8_OneVotePerValidator ==
    Constructed =>
      /\ \A k \in DOMAIN state.window_checks :
             \A i, j \in 1..Len(state.window_checks[k]) :
                 i # j => state.window_checks[k][i] # state.window_checks[k][j]
      /\ \A c \in Callers, ch \in Checkpoints :
             InSeq(c, votes_of(state, cid(ch))) =>
                 /\ submit_checkpoint(c, ch).code = "IllegalState"
                 /\ submit_checkpoint(c, ch).st = state

\* a vote was refused while a stored vote set holds the vote of a
\* validator for a checkpoint that still verifies
C8_Witness ==
    /\ result = "IllegalState"
    /\ \E k \in DOMAIN state.window_checks :
           /\ k[2] \notin DOMAIN state.committed_checkpoints
           /\ k[4] = state.prev_checkpoint
           /\ \E i \in 1..Len(state.window_checks[k]) :
                  state.window_checks[k][i] \in state.validator_set

\* the conditions C9 names
C9_Accepts(c, ch) ==
    /\ c \in state.validator_set
    /\ ch.epoch > 0
    /\ \E m \in 1..ch.epoch : ch.epoch = m * state.check_period
    /\ ch.epoch \notin DOMAIN state.committed_checkpoints
    /\ ch.prev_cid = state.prev_checkpoint

\* C9 as claimed: submit_checkpoint succeeds only if the caller is a
\* validator, the epoch is a positive multiple of check_period, nothing is
\* committed at the epoch and prev_cid is the cid of the last committed
\* checkpoint; otherwise it aborts with IllegalState and the state is
\* unchanged.
C9_RejectsWithIllegalState ==
    Constructed =>
      \A c \in Callers, ch \in Checkpoints :
        ~C9_Accepts(c, ch) =>
            /\ submit_checkpoint(c, ch).code = "IllegalState"
            /\ submit_checkpoint(c, ch).st = state

\* C9 as amended: as claimed, except that the abort is Forbidden when the
\* caller is not an account-type actor.
C9_RejectsUnverified ==
    Constructed =>
      \A c \in Callers, ch \in Checkpoints :
        ~C9_Accepts(c, ch) =>
            /\ submit_checkpoint(c, ch).st = state
            /\ submit_checkpoint(c, ch).code =
                   IF c \in Accounts THEN "IllegalState" ELSE "Forbidden"

\* a vote was stored while a checkpoint is committed: the submitter named
\* the last committed checkpoint as prev_cid
C9_Witness ==
    /\ result = "OK"
    /\ state.committed_checkpoints # <<>>
    /\ \E k \in DOMAIN state.window_checks :
           /\ k[4] = state.prev_checkpoint
           /\ k[2] \notin DOMAIN state.committed_checkpoints

C11_KillRefused ==
    (Constructed /\ (\/ state.status \in {"Terminating", "Killed"}
                     \/ state.validator_set # {})) =>
        \A c \in Callers :
            /\ kill(c).code = "IllegalState"
            /\ kill(c).msgs = <<>>
            /\ kill(c).st = state

\* a call was refused with IllegalState on an active subnet where every
\* staker is a validator: the kill while validators remain
C11_Witness ==
    /\ result = "IllegalState"
    /\ state.status = "Active"
    /\ state.validator_set # {}
    /\ state.window_checks = <<>>
    /\ state.committed_checkpoints = <<>>

\* C12: a kill that returns has sent exactly one message, Kill to the SCA
\* with value 0, and leaves the status Killed; Terminating is never the
\* status of the persisted state.
C12_KillEndsKilled ==
    Constructed =>
        /\ state.status # "Terminating"
        /\ \A c \in Callers :
               kill(c).code = "OK" =>
                   /\ kill(c).msgs = <<Msg(SCA_ACTOR_ADDR, "Kill", <<>>, 0)>>
                   /\ kill(c).st.status = "Killed"

\* a kill has returned on a subnet that had been active
C12_Witness ==
    /\ SentMethod("Kill")
    /\ state.status = "Killed"
    /\ sent = <<Msg(SCA_ACTOR_ADDR, "Kill", <<>>, 0)>>
    /\ state.committed_checkpoints # <<>>

\* C13 as claimed: a successful join sends exactly one message to the SCA:
\* Register with value total_stake (after the credit) when the status was
\* Instantiated and the balance is at least MIN_COLLATERAL_AMOUNT, and
\* AddStake with the value received in every other case.
C13_JoinSendsOne ==
    Constructed =>
      \A c \in Callers, v \in 0..MaxValue :
        \A b \in Balances(v) :
          join(c, v, b).code = "OK" =>
            join(c, v, b).msgs =
              IF state.status = "Instantiated" /\ b >= MIN_COLLATERAL_AMOUNT
              THEN <<Msg(SCA_ACTOR_ADDR, "Register", <<>>,
                         state.total_stake + v)>>
              ELSE <<Msg(SCA_ACTOR_ADDR, "AddStake", <<>>, v)>>

\* C13 as amended: as claimed, except that a join while Instantiated with a
\* balance below MIN_COLLATERAL_AMOUNT sends no message at all.
C13_JoinSendsAtMostOne ==
    Constructed =>
      \A c \in Callers, v \in 0..MaxValue :
        \A b \in Balances(v) :
          join(c, v, b).code = "OK" =>
            join(c, v, b).msgs =
              IF state.status # "Instantiated"
              THEN <<Msg(SCA_ACTOR_ADDR, "AddStake", <<>>, v)>>
              ELSE IF b >= MIN_COLLATERAL_AMOUNT
              THEN <<Msg(SCA_ACTOR_ADDR, "Register", <<>>,
                         state.total_stake + v)>>
              ELSE <<>>

\* a join registered the subnet with the stake of two joins
C13_Witness ==
    /\ SentMethod("Register")
    /\ sent[1].value = state.total_stake
    /\ \E a \in Accounts : state.stake[a] > 0 /\ state.stake[a] < sent[1].value

\* what C14 says of a leave by caller c that holds a stake: ReleaseStake
\* for the stake with value 0 unless Terminating, then the transfer of the
\* stake to c, and c left with no stake and out of validator_set
C14_Leaves(c) ==
    LET s == get_stake(state, c)
        out == leave(c)
    IN /\ out.code = "OK"
       /\ out.msgs =
            (IF state.status = "Terminating"
             THEN <<>>
             ELSE <<Msg(SCA_ACTOR_ADDR, "ReleaseStake", <<s>>, 0)>>)
            \o <<Msg(c, "Send", <<>>, s)>>
       /\ out.st.stake[c] = 0
       /\ out.st.total_stake = state.total_stake - s
       /\ c \notin out.st.validator_set

\* C14 as claimed: leave succeeds only for a caller with a non-zero ledger
\* balance s and any other caller gets IllegalState; on success it sends
\* ReleaseStake{value: s} with value 0 (unless Terminating) and then the
\* transfer of s to the caller, and ends with ledger[caller] = 0,
\* total_stake reduced by s and the caller out of validator_set.
C14_LeaveOrIllegalState ==
    Constructed =>
        \A c \in Callers :
            IF c \in Accounts /\ get_stake(state, c) # 0
            THEN C14_Leaves(c)
            ELSE leave(c) = Abort("IllegalState")

\* C14 as amended: the same, but the refusal is Forbidden when the caller is
\* not an account and IllegalState when an account holds no stake.
C14_LeaveOrAbort ==
    Constructed =>
        \A c \in Callers :
            IF c \in Accounts /\ get_stake(state, c) # 0
            THEN C14_Leaves(c)
            ELSE leave(c) = Abort(IF c \in Accounts THEN "IllegalState"
                                                    ELSE "Forbidden")

\* a leave has paid out a stake of more than one unit while other stake
\* remains in the subnet
C14_Witness ==
    /\ Len(sent) = 2
    /\ sent[1].method = "ReleaseStake"
    /\ sent[2].method = "Send"
    /\ sent[2].value > 1
    /\ sent[1].params = <<sent[2].value>>
    /\ state.stake[sent[2].to] = 0
    /\ state.total_stake > 0

\* C15: the constructor aborts with Forbidden and creates no state for
\* every caller that is neither the init actor nor, when testing is true,
\* the test id; with testing false only the init actor can construct.
C15_ConstructorForbidden ==
    \A c \in Callers, p \in ConstructParams :
        (c # INIT_ACTOR_ADDR /\ ~(testing /\ c = TEST_ADDR_ID)) =>
            constructor(c, p) = Abort("Forbidden")

\* C16: whenever the status is Inactive after a successful call,
\* validator_set is empty, also after a join made while Inactive that does
\* not reactivate the subnet.
C16_InactiveHasNoValidators ==
    (result = "OK" /\ state.status = "Inactive") => state.validator_set = {}

\* C17: join, leave, kill and submit_checkpoint abort with Forbidden, with
\* no state change and no message, when the caller is not an account.
C17_NonAccountForbidden ==
    Constructed =>
        \A c \in Callers \ Accounts :
            /\ \A v \in 0..MaxValue : \A b \in Balances(v) :
                   join(c, v, b) = Abort("Forbidden")
            /\ leave(c) = Abort("Forbidden")
            /\ kill(c) = Abort("Forbidden")
            /\ \A ch \in Checkpoints :
                   submit_checkpoint(c, ch) = Abort("Forbidden")

\* C18: once a constructor call has succeeded, no later constructor call
\* succeeds or replaces the persisted state.
C18_ConstructedOnce ==
    Constructed =>
        \A c \in Callers \ {INIT_ACTOR_ADDR}, p \in ConstructParams :
            /\ constructor(c, p).code # "OK"
            /\ constructor(c, p).st = state

\* the call with outcome out committed a checkpoint
Committed(out) ==
    \/ out.msgs # <<>>
    \/ out.st.committed_checkpoints # state.committed_checkpoints
    \/ out.st.prev_checkpoint # state.prev_checkpoint

\* C19: after every successful submit_checkpoint every entry of
\* window_checks is a non-empty vote set; a call that commits leaves no
\* entry for the cid it committed, records the checkpoint at its epoch, sets
\* prev_checkpoint to its cid and sends exactly one CommitChildCheckpoint
\* with value 0.
C19_CommitCleansVotes ==
    Constructed =>
      /\ \A k \in DOMAIN state.window_checks : state.window_checks[k] # <<>>
      /\ \A c \in Callers, ch \in Checkpoints :
           LET out == submit_checkpoint(c, ch)
           IN out.code = "OK" =>
                /\ \A k \in DOMAIN out.st.window_checks :
                       out.st.window_checks[k] # <<>>
                /\ Committed(out) =>
                     /\ cid(ch) \notin DOMAIN out.st.window_checks
                     /\ ch.epoch \in DOMAIN out.st.committed_checkpoints
                     /\ out.st.committed_checkpoints[ch.epoch] = ch
                     /\ out.st.prev_checkpoint = cid(ch)
                     /\ out.msgs = <<Msg(SCA_ACTOR_ADDR, "CommitChildCheckpoint",
                                         cid(ch), 0)>>

\* a vote of two validators out of two committed a checkpoint, and the
\* entry that held the first vote is gone
C19_Witness ==
    /\ SentMethod("CommitChildCheckpoint")
    /\ Cardinality(state.validator_set) = 2
    /\ state.prev_checkpoint = sent[1].params
    /\ state.window_checks = <<>>

\* C20: a checkpoint is committed only if at least ceil(2 * N / 3) members
\* of the validator_set of the moment of the commit have voted for its cid;
\* the votes of addresses that have left do not count.
C20_QuorumOfCurrentValidators ==
    Constructed =>
      \A c \in Callers, ch \in Checkpoints :
        LET out == submit_checkpoint(c, ch)
            old == votes_of(state, cid(ch))
            voters == {v \in state.validator_set : v = c \/ InSeq(v, old)}
        IN (out.code = "OK" /\ Committed(out)) =>
             Cardinality(voters) >=
                 majority_threshold(Cardinality(state.validator_set))

\* C21: the epochs of committed checkpoints strictly increase in commit
\* order: a call that commits a checkpoint commits one whose epoch is above
\* the epoch of every checkpoint committed before, and so above the epoch
\* of the most recently committed one.
C21_EpochsIncrease ==
    Constructed =>
      \A c \in Callers, ch \in Checkpoints :
        LET out == submit_checkpoint(c, ch)
            C == state.committed_checkpoints
        IN (out.code = "OK" /\ Committed(out)) =>
             /\ \A e \in DOMAIN C : ch.epoch > e
             /\ \A e \in DOMAIN C :
                    cid(C[e]) = state.prev_checkpoint => ch.epoch >= e

\* the Register messages among msgs
Registers(msgs) ==
    {i \in 1..Len(msgs) : msgs[i].method = "Register"}

\* C22: Register is sent to the SCA at most once, so never by a join that
\* follows a call that sent one; the join that sends it leaves the status
\* Active, and the value of the message, total_stake, is at least
\* MIN_COLLATERAL_AMOUNT; no join sends Register and leaves the status
\* Instantiated.
C22_RegisterOnceWhenActive ==
    Constructed =>
      \A c \in Callers, v \in 0..MaxValue :
        \A b \in Balances(v) :
          LET out == join(c, v, b)
          IN (out.code = "OK" /\ Registers(out.msgs) # {}) =>
               /\ ~SentMethod("Register")
               /\ out.st.status = "Active"
               /\ out.st.status # "Instantiated"
               /\ \A i \in Registers(out.msgs) :
                      /\ out.msgs[i].value = out.st.total_stake
                      /\ out.msgs[i].value >= MIN_COLLATERAL_AMOUNT
====
